---- MODULE Spec2Model ----
(***************************************************************************)
(* Model of src/search.py: the record normaliser (Item.from_raw and        *)
(* load_aspects) and the query engine (search_aspects).                    *)
(*                                                                         *)
(* Encoding of the Python values:                                          *)
(*   str              a TLA+ string, read character by character with Len, *)
(*                    SubSeq and \o                                        *)
(*   List[...]        a sequence                                           *)
(*   Dict[str, int]   a function from the set of its keys to Int (dict     *)
(*                    equality ignores insertion order, as function        *)
(*                    equality does)                                       *)
(*   Item             a record [item, data, aspects]; Item.data is either  *)
(*                    None or a non-empty list in the code, and None is    *)
(*                    written <<>> here                                    *)
(*   object identity  the position of the object in the list that owns it  *)
(*                    (raw in load_aspects, items in search_aspects); the  *)
(*                    lists that alias those objects hold positions        *)
(***************************************************************************)
EXTENDS Integers, Sequences, FiniteSets, TLC

VARIABLES
    pc,         \* position of the running function
    item_dict,  \* load_aspects: the argument, as the sequence of its (key, value) pairs
    raw,        \* load_aspects: the list of parsed Items (line 41)
    out,        \* load_aspects: Dict[str, List[Item]] as a sequence of [key, val]; val holds positions in raw
    n,          \* load_aspects: number of Items of raw the loop of line 44 has consumed
    result,     \* load_aspects: the returned list (line 68)
    err,        \* load_aspects: the exception that left it, "" when none
    to_find,    \* search_aspects: requested aspect names
    items,      \* search_aspects: the Item list searched
    or_find,    \* search_aspects: flag
    perfect,    \* search_aspects: flag
    searches,   \* search_aspects: the groups of lines 82-86
    g,          \* search_aspects: number of groups the loop of line 89 has consumed
    s_out       \* search_aspects: the list out of line 88, as positions in items

vars == <<pc, item_dict, raw, out, n, result, err,
          to_find, items, or_find, perfect, searches, g, s_out>>

searchVars == <<to_find, items, or_find, perfect, searches, g, s_out>>

(***************************************************************************)
(* Bounds of the model.                                                    *)
(***************************************************************************)
MaxRecords == 3
MaxItems == 3
MaxFind == 2

(***************************************************************************)
(* Strings.                                                                *)
(***************************************************************************)
RECURSIVE FindFrom(_, _, _)
\* str.find from position k: the first position (1-based) at which sub occurs
\* in s, 0 when it does not occur.
FindFrom(s, sub, k) ==
    IF k + Len(sub) - 1 > Len(s) THEN 0
    ELSE IF SubSeq(s, k, k + Len(sub) - 1) = sub THEN k
    ELSE FindFrom(s, sub, k + 1)

Find(s, sub) == FindFrom(s, sub, 1)

\* str.partition(sep): (head, sep, tail) around the first occurrence of sep,
\* (s, "", "") when there is none.
partition(s, sep) ==
    LET k == Find(s, sep)
    IN  IF k = 0 THEN <<s, "", "">>
        ELSE <<SubSeq(s, 1, k - 1), sep, SubSeq(s, k + Len(sep), Len(s))>>

\* str.split(x, " ", 1): at most one split, at the first space.
split1(x) ==
    LET k == Find(x, " ")
    IN  IF k = 0 THEN <<x>>
        ELSE <<SubSeq(x, 1, k - 1), SubSeq(x, k + 1, Len(x))>>

Digits == {"0", "1", "2", "3", "4", "5", "6", "7", "8", "9"}

DigitVal(c) ==
    CASE c = "0" -> 0 [] c = "1" -> 1 [] c = "2" -> 2 [] c = "3" -> 3
      [] c = "4" -> 4 [] c = "5" -> 5 [] c = "6" -> 6 [] c = "7" -> 7
      [] c = "8" -> 8 [] c = "9" -> 9

Char(s, k) == SubSeq(s, k, k)

\* The digits part of an int literal: digits, single underscores only between
\* two digits.
DigitsOk(s) ==
    /\ Len(s) > 0
    /\ \A k \in 1..Len(s) :
          \/ Char(s, k) \in Digits
          \/ /\ Char(s, k) = "_"
             /\ k > 1 /\ k < Len(s)
             /\ Char(s, k - 1) \in Digits
             /\ Char(s, k + 1) \in Digits

RECURSIVE DigitsVal(_, _, _)
DigitsVal(s, k, acc) ==
    IF k > Len(s) THEN acc
    ELSE IF Char(s, k) = "_" THEN DigitsVal(s, k + 1, acc)
    ELSE DigitsVal(s, k + 1, 10 * acc + DigitVal(Char(s, k)))

Signed(s) == Len(s) > 0 /\ Char(s, 1) \in {"+", "-"}

Unsigned(s) == IF Signed(s) THEN SubSeq(s, 2, Len(s)) ELSE s

\* The white space int() strips, among the characters a string literal can
\* hold (code points up to 255): space, tab, line feed, vertical tab (0x0B,
\* written raw), form feed, carriage return, next line (0x85) and no-break
\* space (0xA0), the last three written raw too. The Unicode spaces and decimal
\* digits above code point 255 cannot be written in a string of the model.
WhiteSpace == {" ", "\t", "\n", "", "\f", "\r", "", " "}

RECURSIVE LStrip(_)
LStrip(s) ==
    IF Len(s) > 0 /\ Char(s, 1) \in WhiteSpace
    THEN LStrip(SubSeq(s, 2, Len(s))) ELSE s

RECURSIVE RStrip(_)
RStrip(s) ==
    IF Len(s) > 0 /\ Char(s, Len(s)) \in WhiteSpace
    THEN RStrip(SubSeq(s, 1, Len(s) - 1)) ELSE s

\* The white space around an int literal is dropped; none is allowed inside,
\* nor between the sign and the digits.
Strip(s) == RStrip(LStrip(s))

\* CPython's default limit on the digits of a decimal literal
\* (sys.get_int_max_str_digits()).
MaxStrDigits == 4300

\* The digits of s: underscores, the sign and white space are not counted.
DigitCount(s) == Cardinality({k \in 1..Len(s) : Char(s, k) \in Digits})

\* int(s) succeeds, for a string s of code points up to 255: white space around,
\* an optional sign, digits with single underscores between them, at most
\* MaxStrDigits digits. What precedes the first space of a weight string holds
\* no space, and may hold a tab or a line break.
IsPyInt(s) ==
    /\ DigitsOk(Unsigned(Strip(s)))
    /\ DigitCount(s) <= MaxStrDigits

\* int(s), for a string IsPyInt accepts.
PyInt(s) ==
    LET t == Strip(s)
        v == DigitsVal(Unsigned(t), 1, 0)
    IN  IF Signed(t) /\ Char(t, 1) = "-" THEN 0 - v ELSE v

(***************************************************************************)
(* Item.from_raw.                                                          *)
(***************************************************************************)
\* Item.data when the raw name carries no variant (None in the code).
NoData == <<>>

\* The empty dict.
EmptyDict == <<>>

\* d[k] = v on a dict: a repeated key keeps the later value.
SetItem(d, k, v) == [x \in (DOMAIN d) \cup {k} |-> IF x = k THEN v ELSE d[x]]

\* One element of the dict comprehension of line 21: split[1] is evaluated
\* first (IndexError without a space), then int(split[0]) (ValueError).
ParseLine(x) ==
    LET split == split1(x)
    IN  IF Len(split) < 2 THEN [ok |-> FALSE, err |-> "IndexError", key |-> "", val |-> 0]
        ELSE IF ~IsPyInt(split[1]) THEN [ok |-> FALSE, err |-> "ValueError", key |-> "", val |-> 0]
        ELSE [ok |-> TRUE, err |-> "", key |-> split[2], val |-> PyInt(split[1])]

RECURSIVE ParseAspects(_, _, _)
\* The dict comprehension of line 21 over asp[k..], acc being the dict so far:
\* the first line that fails raises.
ParseAspects(asp, k, acc) ==
    IF k > Len(asp) THEN [ok |-> TRUE, err |-> "", aspects |-> acc]
    ELSE LET l == ParseLine(asp[k])
         IN  IF ~l.ok THEN [ok |-> FALSE, err |-> l.err, aspects |-> EmptyDict]
             ELSE ParseAspects(asp, k + 1, SetItem(acc, l.key, l.val))

\* from_raw with the wrong variable wrapped as the variant.
from_raw_name_as_data(name, asp) ==
    LET p == partition(name, " --- ")
        a == ParseAspects(asp, 1, EmptyDict)
    IN  [ok |-> a.ok, err |-> a.err,
         item |-> [item |-> p[1],
                   data |-> IF p[3] # "" THEN <<p[1]>> ELSE NoData,
                   aspects |-> a.aspects]]

\* Item.from_raw(name, asp): [ok, err, item]; item is meaningful when ok.
from_raw(name, asp) ==
    LET p == partition(name, " --- ")
        a == ParseAspects(asp, 1, EmptyDict)
    IN  [ok |-> a.ok, err |-> a.err,
         item |-> [item |-> p[1],
                   data |-> IF p[3] # "" THEN <<p[3]>> ELSE NoData,
                   aspects |-> a.aspects]]

(***************************************************************************)
(* load_aspects.                                                           *)
(***************************************************************************)
\* The map of line 41 over the pairs of item_dict.
ParseAll(d) == [i \in 1..Len(d) |-> from_raw(d[i][1], d[i][2])]

\* Stops looking after the first record.
FirstFailureHeadOnly(parsed) ==
    IF Len(parsed) > 0 /\ ~parsed[1].ok THEN 1 ELSE 0

\* list(...) of line 41 consumes the whole map: the position of the first
\* record whose from_raw raises, 0 when every record parses.
FirstFailure(parsed) ==
    IF \E i \in 1..Len(parsed) : ~parsed[i].ok
    THEN CHOOSE i \in 1..Len(parsed) :
            /\ ~parsed[i].ok
            /\ \A j \in 1..(i - 1) : parsed[j].ok
    ELSE 0

\* out.get(key): the position of key in the dict, 0 for None.
KeyPos(o, key) ==
    IF \E p \in 1..Len(o) : o[p].key = key
    THEN CHOOSE p \in 1..Len(o) : o[p].key = key
    ELSE 0

\* Compares the keys only.
AspectsDifferKeysOnly(a, b) == DOMAIN a # DOMAIN b

\* v.aspects != item.aspects (line 48): dict inequality.
AspectsDiffer(a, b) == a # b

\* The for loop of lines 47-59 over vl: the position in vl of the first v whose
\* aspects equal those of item, 0 when the loop ends without a break.
FirstEqual(r, vl, i) ==
    IF \E k \in 1..Len(vl) : ~AspectsDiffer(r[vl[k]].aspects, r[i].aspects)
    THEN CHOOSE k \in 1..Len(vl) :
            /\ ~AspectsDiffer(r[vl[k]].aspects, r[i].aspects)
            /\ \A j \in 1..(k - 1) : AspectsDiffer(r[vl[j]].aspects, r[i].aspects)
    ELSE 0

\* Lines 51-55 without the placeholder.
OrPlaceholderNone(data) == data

\* Lines 51-52 and 54-55: a data of None becomes ['None'].
OrPlaceholder(data) == IF data = NoData THEN <<"None">> ELSE data

\* Concatenates the wrong way round.
MergedDataPrepend(vdata, idata) == OrPlaceholder(idata) \o OrPlaceholder(vdata)

\* v.data after lines 51-57.
MergedData(vdata, idata) == OrPlaceholder(vdata) \o OrPlaceholder(idata)

\* Lines 51-58 on the objects at positions v and i of raw: both are mutated.
MergeInto(r, v, i) ==
    [r EXCEPT ![v].data = MergedData(r[v].data, r[i].data),
              ![i].data = OrPlaceholder(r[i].data)]

\* One turn of the loop of line 44, for the Item at position i of raw; st is
\* [raw, out].
DedupeItem(st, i) ==
    LET r == st.raw
        o == st.out
        p == KeyPos(o, r[i].item)
    IN  IF p # 0
        THEN LET k == FirstEqual(r, o[p].val, i)
             IN  IF k # 0
                 THEN [raw |-> MergeInto(r, o[p].val[k], i), out |-> o]
                 ELSE [raw |-> r, out |-> [o EXCEPT ![p].val = Append(@, i)]]
        ELSE [raw |-> r, out |-> Append(o, [key |-> r[i].item, val |-> <<i>>])]

RECURSIVE Chain(_, _, _)
\* list(itertools.chain(*out.values())) from group p on.
Chain(r, o, p) ==
    IF p > Len(o) THEN <<>>
    ELSE [k \in 1..Len(o[p].val) |-> r[o[p].val[k]]] \o Chain(r, o, p + 1)

RECURSIVE DedupeFrom(_, _)
\* The loop of line 44 from position i on.
DedupeFrom(st, i) ==
    IF i > Len(st.raw) THEN st ELSE DedupeFrom(DedupeItem(st, i), i + 1)

\* load_aspects as a function of its argument: [ok, err, list].
load_aspects(d) ==
    LET parsed == ParseAll(d)
    IN  IF FirstFailure(parsed) # 0
        THEN [ok |-> FALSE, err |-> parsed[FirstFailure(parsed)].err, list |-> <<>>]
        ELSE LET st == DedupeFrom([raw |-> [i \in 1..Len(d) |-> parsed[i].item],
                                   out |-> <<>>], 1)
             IN  [ok |-> TRUE, err |-> "", list |-> Chain(st.raw, st.out, 1)]

\* Raw names and weight lists the inputs are drawn from.
RawNames == {"W", "W --- ", "W --- None", "W --- b", "F"}

AspLists == {<<"2 aqua">>, <<"1 ignis", "\t2 aqua">>, <<"3\n aqua">>,
             <<"2aqua">>, <<"2 aqua", "x ignis">>}

\* The dicts of k pairs: keys are unique, insertion order is kept.
DictsOfLen(k) ==
    {d \in [1..k -> RawNames \X AspLists] :
        \A i, j \in 1..k : i < j => d[i][1] # d[j][1]}

IdleSearch ==
    /\ to_find = <<>> /\ items = <<>> /\ or_find = FALSE /\ perfect = FALSE
    /\ searches = <<>> /\ g = 0 /\ s_out = <<>>

Init ==
    /\ pc = "parse"
    /\ \E k \in 0..MaxRecords : item_dict \in DictsOfLen(k)
    /\ raw = <<>> /\ out = <<>> /\ n = 0 /\ result = <<>> /\ err = ""
    /\ IdleSearch

\* Line 41, every record parsing.
Parse ==
    /\ pc = "parse"
    /\ FirstFailure(ParseAll(item_dict)) = 0
    /\ raw' = [i \in 1..Len(item_dict) |-> ParseAll(item_dict)[i].item]
    /\ pc' = "dedupe"
    /\ UNCHANGED <<item_dict, out, n, result, err>>
    /\ UNCHANGED searchVars

\* Line 41, a record raising: load_aspects is left by the exception.
ParseFail ==
    /\ pc = "parse"
    /\ FirstFailure(ParseAll(item_dict)) # 0
    /\ err' = ParseAll(item_dict)[FirstFailure(ParseAll(item_dict))].err
    /\ pc' = "error"
    /\ UNCHANGED <<item_dict, raw, out, n, result>>
    /\ UNCHANGED searchVars

\* One turn of the loop of lines 44-66.
Dedupe ==
    /\ pc = "dedupe"
    /\ n < Len(raw)
    /\ LET st == DedupeItem([raw |-> raw, out |-> out], n + 1)
       IN  raw' = st.raw /\ out' = st.out
    /\ n' = n + 1
    /\ UNCHANGED <<pc, item_dict, result, err>>
    /\ UNCHANGED searchVars

\* Line 68.
Return ==
    /\ pc = "dedupe"
    /\ n = Len(raw)
    /\ result' = Chain(raw, out, 1)
    /\ pc' = "done"
    /\ UNCHANGED <<item_dict, raw, out, n, err>>
    /\ UNCHANGED searchVars

Next == Parse \/ ParseFail \/ Dedupe \/ Return

Spec == Init /\ [][Next]_vars

(***************************************************************************)
(* search_aspects.                                                         *)
(***************************************************************************)
\* Splits into singleton groups when or_find is off.
BuildSearchesInverted(tf, orf) ==
    IF ~orf THEN [k \in 1..Len(tf) |-> <<tf[k]>>] ELSE <<tf>>

\* Lines 82-86: one singleton group per requested name, or the whole request
\* as one group.
BuildSearches(tf, orf) ==
    IF orf THEN [k \in 1..Len(tf) |-> <<tf[k]>>] ELSE <<tf>>

\* Refuses an empty group.
FoundNonEmpty(search, it, perf) ==
    /\ Len(search) > 0
    /\ \A k \in 1..Len(search) : search[k] \in DOMAIN it.aspects
    /\ perf => Cardinality(DOMAIN it.aspects) = Len(search)

\* The filters of lines 90-92 on the Item it: every name of search is a key of
\* its aspects and, with perfect, it has as many aspects as search has names.
Found(search, it, perf) ==
    /\ \A k \in 1..Len(search) : search[k] \in DOMAIN it.aspects
    /\ perf => Cardinality(DOMAIN it.aspects) = Len(search)

\* Never finds x: extends by everything found.
InOutNever(its, o, x) == FALSE

\* Compares the objects, not their fields.
InOutByIdentity(its, o, x) == \E k \in 1..Len(o) : o[k] = x

\* x in out (line 94): list membership compares with ==, which the dataclass
\* defines as equality of (item, data, aspects).
InOut(its, o, x) == \E k \in 1..Len(o) : its[o[k]] = its[x]

RECURSIVE ExtendFrom(_, _, _, _, _)
\* out.extend(filter(lambda x: x not in out, found)) of line 94 from position x
\* of items on: extend takes the filter's elements one at a time, so the test
\* of each element sees the elements appended before it.
ExtendFrom(its, search, perf, o, x) ==
    IF x > Len(its) THEN o
    ELSE IF Found(search, its[x], perf) /\ ~InOut(its, o, x)
         THEN ExtendFrom(its, search, perf, Append(o, x), x + 1)
         ELSE ExtendFrom(its, search, perf, o, x + 1)

RECURSIVE SearchFrom(_, _, _, _, _)
\* The loop of line 89 from group k on.
SearchFrom(its, ss, perf, o, k) ==
    IF k > Len(ss) THEN o
    ELSE SearchFrom(its, ss, perf, ExtendFrom(its, ss[k], perf, o, 1), k + 1)

\* search_aspects as a function of its arguments: the positions in items of
\* the returned Items, in order.
search_aspects(tf, its, orf, perf) ==
    SearchFrom(its, BuildSearches(tf, orf), perf, <<>>, 1)

\* Items and aspect names the search inputs are drawn from. The same Item may
\* be drawn at two positions: two equal objects.
ItemPool ==
    {[item |-> "W", data |-> NoData, aspects |-> SetItem(EmptyDict, "aqua", 2)],
     [item |-> "W", data |-> <<"b">>,
      aspects |-> SetItem(SetItem(EmptyDict, "aqua", 2), "ignis", 1)],
     [item |-> "F", data |-> NoData, aspects |-> SetItem(EmptyDict, "ignis", 1)],
     [item |-> "F", data |-> <<"None", "b">>, aspects |-> EmptyDict]}

AspectNames == {"aqua", "ignis", "terra"}

IdleLoad ==
    /\ item_dict = <<>> /\ raw = <<>> /\ out = <<>> /\ n = 0
    /\ result = <<>> /\ err = ""

SearchInit ==
    /\ pc = "search"
    /\ \E k \in 0..MaxFind : to_find \in [1..k -> AspectNames]
    /\ \E k \in 0..MaxItems : items \in [1..k -> ItemPool]
    /\ or_find \in BOOLEAN
    /\ perfect \in BOOLEAN
    /\ searches = <<>> /\ g = 0 /\ s_out = <<>>
    /\ IdleLoad

\* Lines 82-88.
Start ==
    /\ pc = "search"
    /\ searches' = BuildSearches(to_find, or_find)
    /\ s_out' = <<>>
    /\ g' = 0
    /\ pc' = "loop"
    /\ UNCHANGED <<to_find, items, or_find, perfect>>
    /\ UNCHANGED <<item_dict, raw, out, n, result, err>>

\* One turn of the loop of lines 89-94.
Group ==
    /\ pc = "loop"
    /\ g < Len(searches)
    /\ s_out' = ExtendFrom(items, searches[g + 1], perfect, s_out, 1)
    /\ g' = g + 1
    /\ UNCHANGED <<pc, to_find, items, or_find, perfect, searches>>
    /\ UNCHANGED <<item_dict, raw, out, n, result, err>>

\* Line 96.
SearchReturn ==
    /\ pc = "loop"
    /\ g = Len(searches)
    /\ pc' = "found"
    /\ UNCHANGED searchVars
    /\ UNCHANGED <<item_dict, raw, out, n, result, err>>

SearchNext == Start \/ Group \/ SearchReturn

SpecSearch == SearchInit /\ [][SearchNext]_vars

(***************************************************************************)
(* Properties of load_aspects, checked under Spec.                         *)
(***************************************************************************)
RECURSIVE Ascending(_)
\* The members of a finite set of integers, in increasing order.
Ascending(S) ==
    IF S = {} THEN <<>>
    ELSE LET m == CHOOSE x \in S : \A y \in S : x <= y
         IN  <<m>> \o Ascending(S \ {m})

Range(f) == {f[k] : k \in DOMAIN f}

\* What from_raw makes of each pair of the argument, before any merge.
Parsed == ParseAll(item_dict)

ParsedName(i) == Parsed[i].item.item

ParsedAspects(i) == Parsed[i].item.aspects

\* The variant in a raw name: what follows the first " --- ", "" when there is
\* no separator or nothing after it.
RawVariant(name) == partition(name, " --- ")[3]

\* The (name, attributes) pairs of the first k records.
PairsUpTo(k) == {<<ParsedName(i), ParsedAspects(i)>> : i \in 1..k}

\* The Entries of the dict out, as positions in raw.
Accepted == UNION {Range(out[p].val) : p \in DOMAIN out}

\* C1: when every record parses, after each turn of the dedup pass every name
\* group holds Entries of that name with pairwise different attribute mappings,
\* one for each distinct (name, attributes) pair met so far; the returned list
\* holds exactly one Entry for each distinct (name, attributes) pair of the
\* input, so records of one name with different attributes stay separate.
C1_OneEntryPerPair ==
    /\ pc \in {"dedupe", "done"} =>
          /\ \A p \in DOMAIN out :
                /\ \A a \in DOMAIN out[p].val : raw[out[p].val[a]].item = out[p].key
                /\ \A a, b \in DOMAIN out[p].val :
                      a # b => raw[out[p].val[a]].aspects # raw[out[p].val[b]].aspects
          /\ \A p, q \in DOMAIN out : p # q => out[p].key # out[q].key
          /\ {<<raw[v].item, raw[v].aspects>> : v \in Accepted} = PairsUpTo(n)
    /\ pc = "done" =>
          /\ \A a, b \in DOMAIN result :
                a # b => <<result[a].item, result[a].aspects>>
                            # <<result[b].item, result[b].aspects>>
          /\ {<<result[a].item, result[a].aspects>> : a \in DOMAIN result}
                = PairsUpTo(Len(item_dict))

\* Three records of one name, two of them with equal attributes: two Entries.
C1_Witness ==
    /\ pc = "done"
    /\ Len(item_dict) = 3
    /\ Len(result) = 2
    /\ result[1].item = result[2].item
    /\ result[1].aspects # result[2].aspects

\* The records that went into the Entry e, in input order.
Contributors(e) ==
    Ascending({i \in 1..Len(item_dict) :
                  ParsedName(i) = e.item /\ ParsedAspects(i) = e.aspects})

\* The variant of record i, the placeholder when it carries none.
VariantOrNone(i) ==
    IF RawVariant(item_dict[i][1]) = "" THEN "None" ELSE RawVariant(item_dict[i][1])

\* C2: an Entry that absorbed k >= 2 records has as variants the variants of
\* those k records in input order, 'None' standing for each record without a
\* variant, so the list has length k.
C2_VariantsInInputOrder ==
    pc = "done" =>
        \A a \in DOMAIN result :
            LET c == Contributors(result[a])
            IN  Len(c) >= 2 =>
                    result[a].data = [k \in 1..Len(c) |-> VariantOrNone(c[k])]

\* An Entry merged from three records, with and without variants.
C2_Witness ==
    /\ pc = "done"
    /\ \E a \in DOMAIN result :
          /\ Len(result[a].data) = 3
          /\ "None" \in Range(result[a].data)
          /\ "b" \in Range(result[a].data)
          /\ result[a].data[1] = "b"

\* A weight string with no space, or with a non-integer before its first space.
Malformed(w) ==
    \/ Find(w, " ") = 0
    \/ ~IsPyInt(SubSeq(w, 1, Find(w, " ") - 1))

MalformedRecords ==
    {i \in 1..Len(item_dict) :
        \E k \in 1..Len(item_dict[i][2]) : Malformed(item_dict[i][2][k])}

\* C7: with a malformed weight string in any record, of whatever position, the
\* map of line 41 raises (only ParseFail can be taken): load_aspects never gets
\* past line 41 and never returns a list, partial or not.
C7_MalformedAborts ==
    MalformedRecords # {} =>
        /\ pc \in {"parse", "error"}
        /\ FirstFailure(Parsed) # 0
        /\ pc = "error" => err \in {"IndexError", "ValueError"}
        /\ raw = <<>> /\ out = <<>> /\ result = <<>>

\* The only malformed record is the last of three.
C7_Witness ==
    /\ pc = "error"
    /\ Len(item_dict) = 3
    /\ MalformedRecords = {3}

RECURSIVE NatToStr(_)
\* str(n) for n >= 0.
NatToStr(k) ==
    LET d == CHOOSE c \in Digits : DigitVal(c) = k % 10
    IN  IF k < 10 THEN d ELSE NatToStr(k \div 10) \o d

IntToStr(k) == IF k < 0 THEN "-" \o NatToStr(0 - k) ELSE NatToStr(k)

RECURSIVE WeightStrings(_)
\* The attributes d as weight strings "<weight> <name>".
WeightStrings(d) ==
    IF DOMAIN d = {} THEN <<>>
    ELSE LET k == CHOOSE x \in DOMAIN d : TRUE
         IN  <<IntToStr(d[k]) \o " " \o k>>
                 \o WeightStrings([x \in (DOMAIN d) \ {k} |-> d[x]])

\* The raw records of one Entry: one per variant, the bare name without any.
RawOfEntry(e) ==
    IF e.data = NoData THEN << <<e.item, WeightStrings(e.aspects)>> >>
    ELSE [k \in 1..Len(e.data) |->
             <<e.item \o " --- " \o e.data[k], WeightStrings(e.aspects)>>]

RECURSIVE RawPairs(_, _)
\* The raw records of the Entries l[a..].
RawPairs(l, a) ==
    IF a > Len(l) THEN <<>> ELSE RawOfEntry(l[a]) \o RawPairs(l, a + 1)

RECURSIVE DictOf(_, _, _)
\* The mapping built from pairs ps[k..]: a repeated key keeps its first place
\* and its last value.
DictOf(ps, k, d) ==
    IF k > Len(ps) THEN d
    ELSE IF \E p \in 1..Len(d) : d[p][1] = ps[k][1]
         THEN DictOf(ps, k + 1,
                     [p \in 1..Len(d) |-> IF d[p][1] = ps[k][1] THEN ps[k] ELSE d[p]])
         ELSE DictOf(ps, k + 1, Append(d, ps[k]))

\* The returned list turned back into raw form.
RawForm == DictOf(RawPairs(result, 1), 1, <<>>)

\* The raw form names no raw name twice.
RawFormInjective ==
    LET ps == RawPairs(result, 1)
    IN  \A a, b \in DOMAIN ps : a # b => ps[a][1] # ps[b][1]

Reloaded == load_aspects(RawForm)

SameEntries(l, m) == Len(l) = Len(m) /\ Range(l) = Range(m)

\* C8 as stated: reloading the raw form of the returned list yields the same
\* Entries.
C8_Idempotent ==
    pc = "done" => Reloaded.ok /\ SameEntries(Reloaded.list, result)

\* C8, amended: reloading the raw form of the returned list yields the same
\* Entries whenever that raw form gives every record its own raw name.
C8_IdempotentWhenInjective ==
    pc = "done" /\ RawFormInjective =>
        Reloaded.ok /\ SameEntries(Reloaded.list, result)

\* A merged Entry beside another Entry of its name, all raw names distinct.
C8_Witness ==
    /\ pc = "done"
    /\ RawFormInjective
    /\ Len(result) = 2
    /\ result[1].item = result[2].item
    /\ Len(result[1].data) = 2
    /\ "None" \in Range(result[1].data)

\* C10 as stated: no variant string occurs twice in an Entry.
C10_VariantsDistinct ==
    pc = "done" =>
        \A a \in DOMAIN result :
            \A j, k \in DOMAIN result[a].data :
                j # k => result[a].data[j] # result[a].data[k]

\* C10, amended: in an Entry only the placeholder 'None' can occur twice; it
\* occurs once for each contributing record whose raw name has no variant, an
\* empty variant or the variant 'None'.
C10_OnlyNoneRepeats ==
    pc = "done" =>
        \A a \in DOMAIN result :
            /\ \A j, k \in DOMAIN result[a].data :
                  j # k /\ result[a].data[j] = result[a].data[k]
                      => result[a].data[j] = "None"
            /\ Len(result[a].data) >= 2 =>
                  Cardinality({k \in DOMAIN result[a].data : result[a].data[k] = "None"})
                      = Cardinality({i \in Range(Contributors(result[a])) :
                                        RawVariant(item_dict[i][1]) \in {"", "None"}})

\* An Entry with a variant and the placeholder twice.
C10_Witness ==
    /\ pc = "done"
    /\ \E a \in DOMAIN result :
          /\ Len(result[a].data) = 3
          /\ "b" \in Range(result[a].data)
          /\ Cardinality({k \in DOMAIN result[a].data : result[a].data[k] = "None"}) = 2

(***************************************************************************)
(* Properties of search_aspects, checked under SpecSearch.                 *)
(***************************************************************************)
Keys(i) == DOMAIN items[i].aspects

\* The Item at position i is in the result, as the == of the Items has it.
Returned(i) == \E k \in DOMAIN s_out : items[s_out[k]] = items[i]

\* No equal Item stands before position i.
FirstOfValue(i) == \A j \in 1..(i - 1) : items[j] # items[i]

\* C3: in an exact conjunctive search an Entry is returned iff its attribute
\* keys are exactly the requested names.
C3_ExactSet ==
    pc = "found" /\ ~or_find /\ perfect =>
        \A i \in DOMAIN items : Returned(i) <=> Keys(i) = Range(to_find)

\* C4 as stated: an empty request returns nothing, whatever the flags.
C4_EmptyRequestEmptyResult ==
    pc = "found" /\ to_find = <<>> => s_out = <<>>

\* C4, amended: an empty request returns nothing in a disjunctive search; in a
\* conjunctive search it returns every Entry (those without attributes, when
\* exact), one of each group of equal Entries, in input order.
C4_EmptyRequest ==
    pc = "found" /\ to_find = <<>> =>
        IF or_find THEN s_out = <<>>
        ELSE s_out = Ascending({i \in DOMAIN items :
                                   /\ perfect => Keys(i) = {}
                                   /\ FirstOfValue(i)})

\* An empty conjunctive request that returns three Entries.
C4_Witness ==
    /\ pc = "found"
    /\ to_find = <<>>
    /\ ~or_find
    /\ Len(s_out) = 3

\* The request names no aspect twice: it is a set.
NoRepeats(tf) == \A j, k \in DOMAIN tf : j # k => tf[j] # tf[k]

\* C5 as stated: for a non-empty requested set, what the conjunctive search
\* returns, the disjunctive search of the same request and exact flag returns
\* too.
C5_ConjWithinDisj ==
    pc = "found" /\ ~or_find /\ to_find # <<>> /\ NoRepeats(to_find) =>
        Range(s_out) \subseteq Range(search_aspects(to_find, items, TRUE, perfect))

\* C5, amended: it does when the exact flag is off, or the request has one name.
C5_ConjWithinDisjNotExact ==
    pc = "found" /\ ~or_find /\ to_find # <<>> /\ NoRepeats(to_find)
                 /\ (~perfect \/ Len(to_find) = 1) =>
        Range(s_out) \subseteq Range(search_aspects(to_find, items, TRUE, perfect))

\* A conjunctive search for two names that returns an Entry.
C5_Witness ==
    /\ pc = "found"
    /\ ~or_find
    /\ ~perfect
    /\ Len(to_find) = 2
    /\ to_find[1] # to_find[2]
    /\ s_out # <<>>

\* Position i matches the singleton group of the k-th requested name.
MatchesGroup(k, i) ==
    /\ to_find[k] \in Keys(i)
    /\ perfect => Cardinality(Keys(i)) = 1

FirstGroup(i) ==
    CHOOSE k \in DOMAIN to_find :
        MatchesGroup(k, i) /\ \A j \in 1..(k - 1) : ~MatchesGroup(j, i)

\* The union of the matches of the first k groups, one of each group of equal
\* Entries.
Kept(k) ==
    {i \in DOMAIN items : FirstOfValue(i) /\ \E j \in 1..k : MatchesGroup(j, i)}

C6_AfterEachGroup ==
    pc \in {"loop", "found"} /\ or_find =>
        /\ Range(s_out) = Kept(g)
        /\ \A a, b \in DOMAIN s_out : a # b => items[s_out[a]] # items[s_out[b]]
        /\ \A a, b \in DOMAIN s_out :
              a < b =>
                 \/ FirstGroup(s_out[a]) < FirstGroup(s_out[b])
                 \/ /\ FirstGroup(s_out[a]) = FirstGroup(s_out[b])
                    /\ s_out[a] < s_out[b]

C6_OnlyAppends ==
    or_find => /\ Len(s_out) <= Len(s_out')
               /\ SubSeq(s_out', 1, Len(s_out)) = s_out

\* C6: in a disjunctive search, after each group the result is the union of
\* the matches of the groups processed so far with no Entry twice, ordered by
\* the first group an Entry matches and then by its input position; a group
\* only appends.
C6_UnionInGroupOrder == [] C6_AfterEachGroup /\ [][C6_OnlyAppends]_vars

\* Two groups, three Entries returned, the first group's after a later input
\* position.
C6_Witness ==
    /\ pc = "found"
    /\ or_find
    /\ Len(to_find) = 2
    /\ Len(s_out) = 3
    /\ s_out[1] > s_out[3]

\* Position i matches a group of the query.
MatchesQuery(i) ==
    \E k \in DOMAIN searches : Found(searches[k], items[i], perfect)

\* C9 as stated, for a non-empty request: two equal Entries at different
\* positions that match the query are both returned.
C9_DedupByIdentity ==
    pc = "found" /\ to_find # <<>> =>
        \A i, j \in DOMAIN items :
            i # j /\ items[i] = items[j] /\ MatchesQuery(i)
                => i \in Range(s_out) /\ j \in Range(s_out)

\* C9, amended: duplicates are removed by value; of the equal Entries that
\* match the query only the first in input order is returned.
C9_DedupByValue ==
    pc = "found" =>
        /\ \A i \in DOMAIN items :
              MatchesQuery(i) => (i \in Range(s_out) <=> FirstOfValue(i))
        /\ \A a, b \in DOMAIN s_out : a # b => items[s_out[a]] # items[s_out[b]]

\* Two equal matching Entries, the second left out.
C9_Witness ==
    /\ pc = "found"
    /\ \E i, j \in DOMAIN items :
          /\ i < j
          /\ items[i] = items[j]
          /\ MatchesQuery(i)
          /\ i \in Range(s_out)
          /\ j \notin Range(s_out)

====
